---- MODULE Spec2Model ----
(***************************************************************************)
(* Orchestration core of mistral-code: the command interpreter, the mode   *)
(* state, the conversation history and the bounded tool-calling loop of    *)
(* processCommand, driven by the readline "line" event.                    *)
(*                                                                         *)
(* A string is a sequence of tokens: single characters for input lines,    *)
(* whole fixed texts for the program's literals.  The empty string is <<>>.*)
(* processCommand is an async function that the "line" handler calls       *)
(* without awaiting it, so every call runs to its first await and is then  *)
(* suspended; the calls still suspended are the pending exchanges.  A step *)
(* of the model is what one call does between two awaits.  exit and quit   *)
(* close the reader, whose "close" handler ends the process: once closed   *)
(* is set nothing runs any more, the pending exchanges included.           *)
(*                                                                         *)
(* The tool turns of an exchange live in its local messages sequence; the  *)
(* session's conversationHistory receives the user turn and the final      *)
(* answer only.  The field by of a turn and the fields of an exchange      *)
(* after its locals (ncalls, fileWrites, ...) record what happened, for    *)
(* the properties; the code does not read them.                            *)
(***************************************************************************)
EXTENDS Integers, Sequences, FiniteSets, TLC

VARIABLES conversationHistory, planMode, exchanges, closed, lineCount, lastInput, rounds,
          files, lastTool

sessionVars == <<conversationHistory, planMode, exchanges, closed, lineCount, lastInput, rounds>>

vars == <<conversationHistory, planMode, exchanges, closed, lineCount, lastInput, rounds,
          files, lastTool>>

(* ------------------------------ bounds --------------------------------- *)
\* input lines read in one session
MaxLines == 2
\* calls of processCommand suspended at the same time
MaxPending == 2
\* tool rounds of one session that are explored in full: the completion
\* boundary requests any of ToolRequests, the executor returns any of
\* ToolResults, and input lines and other exchanges are interleaved with them.
\* Past this budget the one tool round explored is that of a boundary that
\* requests PlainRequest on every response, for an exchange that is alone and
\* whose rounds so far were all plain, while no input line arrives (the solo run).
MaxRounds == 1

(* --------------------------- string helpers ---------------------------- *)
WhiteSpace == {" ", "\n"}

RECURSIVE trimStart(_)
trimStart(s) ==
  IF s = <<>> THEN s
  ELSE IF Head(s) \in WhiteSpace THEN trimStart(Tail(s)) ELSE s

RECURSIVE trimEnd(_)
trimEnd(s) ==
  IF s = <<>> THEN s
  ELSE IF s[Len(s)] \in WhiteSpace THEN trimEnd(SubSeq(s, 1, Len(s) - 1)) ELSE s

trim(s) == trimEnd(trimStart(s))

startsWith(s, p) == Len(s) >= Len(p) /\ SubSeq(s, 1, Len(p)) = p

slice(s, n) == SubSeq(s, n + 1, Len(s))

lowerChar(c) ==
  CASE c = "A" -> "a"
    [] c = "E" -> "e"
    [] c = "I" -> "i"
    [] c = "O" -> "o"
    [] c = "P" -> "p"
    [] c = "R" -> "r"
    [] c = "S" -> "s"
    [] c = "T" -> "t"
    [] c = "V" -> "v"
    [] c = "X" -> "x"
    [] c = "Y" -> "y"
    [] OTHER -> c

toLowerCase(s) == [i \in 1..Len(s) |-> lowerChar(s[i])]

(* ------------------------------ literals ------------------------------- *)
S_exit == <<"e", "x", "i", "t">>
S_quit == <<"q", "u", "i", "t">>
S_clear == <<"c", "l", "e", "a", "r">>
S_help == <<"h", "e", "l", "p">>
S_plan == <<"/", "p", "l", "a", "n">>
S_slashApprove == <<"/", "a", "p", "p", "r", "o", "v", "e">>
S_approve == <<"a", "p", "p", "r", "o", "v", "e">>
S_yes == <<"y", "e", "s">>
S_yesCommaImplement == S_yes \o <<",", " ">> \o <<"i", "m", "p", "l", "e", "m", "e", "n", "t">>
S_yesImplement == S_yes \o <<" ">> \o <<"i", "m", "p", "l", "e", "m", "e", "n", "t">>

ImplementInstruction == <<"Please implement the plan we discussed.">>
NoResponse == <<"No response">>

maxIterations == 10

\* the input lines the session may read
InputLines ==
  { S_exit,
    S_clear,
    S_help,
    <<" ">>,
    S_plan,
    <<" ">> \o S_plan \o <<" ", " ", "f", "i", "x", " ">>,
    <<"Y", "E", "S">>,
    <<"h", "i">> }

(* -------------------------- capability registry ------------------------ *)
readFileTool == "read_file"
listDirectoryTool == "list_directory"
editFileTool == "edit_file"
runCommandTool == "run_command"

isToolName_anyName(name) == TRUE

isToolName_withoutListDirectory(name) ==
  \/ name = "read_file"
  \/ name = "edit_file"
  \/ name = "run_command"

isToolName(name) ==
  \/ name = "read_file"
  \/ name = "list_directory"
  \/ name = "edit_file"
  \/ name = "run_command"

(* ------------------------- completion responses ------------------------ *)
\* argument payloads: a JSON string, a string that is not JSON, or structured data
ArgsJson == [type |-> "string", text |-> <<"{", "}">>, value |-> "none"]
ArgsMalformed == [type |-> "string", text |-> <<"{">>, value |-> "none"]
ArgsObject == [type |-> "object", text |-> <<>>, value |-> "args"]

\* JSON.stringify of structured data
stringify(value) == <<"{", "}">>

\* typeof arguments === "string" ? arguments : JSON.stringify(arguments)
argumentsString(a) == IF a.type = "string" THEN a.text ELSE stringify(a.value)

\* JSON.parse succeeds on its argument
jsonParses(str) == str = <<"{", "}">>

ToolCall(id, name, args) == [id |-> id, name |-> name, arguments |-> args]

PlainRequest == << ToolCall("c1", "read_file", ArgsJson) >>

ToolRequests ==
  { PlainRequest,
    << ToolCall("c1", "edit_file", ArgsObject), ToolCall("c2", "run_command", ArgsJson) >>,
    << ToolCall("", "edit_file", ArgsJson), ToolCall("c1", "bogus", ArgsJson),
       ToolCall("c2", "list_directory", ArgsJson) >>,
    << ToolCall("c1", "run_command", ArgsJson), ToolCall("c2", "read_file", ArgsMalformed) >> }

\* message.content of a response without tool calls
TextChunk(text) == [type |-> "text", text |-> text]
ImageChunk == [type |-> "image_url", imageUrl |-> <<"u">>]

\* no message received
NoContent == [type |-> "none", text |-> <<>>, chunks |-> <<>>]

FinalContents ==
  { [type |-> "string", text |-> <<"ok">>, chunks |-> <<>>],
    [type |-> "string", text |-> <<>>, chunks |-> <<>>] }

\* more contents: null, and arrays of chunks
AnswerContents ==
  FinalContents \cup
  { [type |-> "null", text |-> <<>>, chunks |-> <<>>],
    [type |-> "array", text |-> <<>>, chunks |-> <<>>],
    [type |-> "array", text |-> <<>>, chunks |-> <<ImageChunk>>],
    [type |-> "array", text |-> <<>>, chunks |-> <<TextChunk(<<>>), ImageChunk>>],
    [type |-> "array", text |-> <<>>,
     chunks |-> <<TextChunk(<<"a">>), ImageChunk, TextChunk(<<"b">>)>>] }

\* results the capability executor may return
PlainResult == <<"result">>

ToolResults == { PlainResult, <<"Error">> }

(* ------------------------------- turns --------------------------------- *)
\* by: the exchange that appended the turn (0: none), kept for the properties only
Turn(role, content, by) ==
  [role |-> role, content |-> content, toolCallId |-> "", toolCalls |-> <<>>, by |-> by]

systemMessage(isPlanMode) ==
  [role |-> "system",
   content |-> IF isPlanMode THEN <<"SYSTEM_PROMPT", "[PLAN MODE ACTIVE]">> ELSE <<"SYSTEM_PROMPT">>,
   toolCallId |-> "", toolCalls |-> <<>>, by |-> 0]

\* conversationHistory.map(...) of processCommand
chatMessage(msg) ==
  IF msg.role = "tool" /\ msg.toolCallId # ""
  THEN [role |-> "tool", content |-> msg.content, toolCallId |-> msg.toolCallId,
        toolCalls |-> <<>>, by |-> msg.by]
  ELSE IF Len(msg.toolCalls) > 0
  THEN [role |-> "assistant", content |-> msg.content, toolCallId |-> "",
        toolCalls |-> msg.toolCalls, by |-> msg.by]
  ELSE [role |-> msg.role, content |-> msg.content, toolCallId |-> "",
        toolCalls |-> <<>>, by |-> msg.by]

buildMessages(isPlanMode, history) ==
  <<systemMessage(isPlanMode)>> \o [i \in 1..Len(history) |-> chatMessage(history[i])]

assistantMsg(toolCalls, by) ==
  [role |-> "assistant", content |-> <<>>, toolCallId |-> "",
   toolCalls |-> [i \in 1..Len(toolCalls) |->
                    [id |-> toolCalls[i].id, name |-> toolCalls[i].name,
                     arguments |-> argumentsString(toolCalls[i].arguments)]],
   by |-> by]

toolMessage_unkeyed(content, id, by) ==
  [role |-> "tool", content |-> content, toolCallId |-> "", toolCalls |-> <<>>, by |-> by]

toolMessage(content, id, by) ==
  [role |-> "tool", content |-> content, toolCallId |-> id, toolCalls |-> <<>>, by |-> by]

refusalText(name) == <<"Error: Cannot use ", name, " in plan mode.">>

pop_removesFirst(h) == IF h = <<>> THEN h ELSE Tail(h)

pop(h) == IF h = <<>> THEN h ELSE SubSeq(h, 1, Len(h) - 1)

(* ------------------------------ exchanges ------------------------------ *)
\* One call of processCommand that reached the completion boundary.  pc is the
\* await it is suspended on; messages, iteration, isPlanMode, availableTools,
\* toolCalls and idx are its locals; the other fields record what it did.
newExchange(isPlanMode, messages, histBefore) ==
  [pc |-> "awaitCompletion", isPlanMode |-> isPlanMode, messages |-> messages,
   iteration |-> 0, availableTools |-> {}, toolCalls |-> <<>>, idx |-> 0,
   ncalls |-> 0, fileWrites |-> 0, spawns |-> 0,
   finalAnswer |-> FALSE, noResponse |-> FALSE, capReported |-> FALSE,
   error |-> "none", prompts |-> 0, histBefore |-> histBefore,
   plainRun |-> TRUE, solo |-> FALSE, response |-> NoContent, reminded |-> FALSE]

\* the function returns: its locals are gone, and the counters with them (the
\* properties read them in the step that ends the exchange); the reports stay
return(x) ==
  [x EXCEPT !.pc = "done", !.messages = <<>>, !.toolCalls = <<>>, !.idx = 0,
            !.availableTools = {}, !.iteration = 0, !.ncalls = 0,
            !.fileWrites = 0, !.spawns = 0, !.histBefore = <<>>, !.plainRun = TRUE,
            !.solo = FALSE]

\* after the while loop: the cap report, then rl.prompt()
afterLoop_keepsToolTurns(x, h) ==
  LET ofToolRound(m) == m.role = "tool" \/ m.toolCalls # <<>>
  IN [x |-> return([x EXCEPT !.capReported = (x.iteration >= maxIterations),
                             !.prompts = @ + 1]),
      h |-> h \o SelectSeq(x.messages, ofToolRound)]

afterLoop_rollsBack(x, h) ==
  [x |-> return([x EXCEPT !.capReported = (x.iteration >= maxIterations),
                          !.prompts = @ + 1]),
   h |-> pop(h)]

afterLoop(x, h) ==
  [x |-> return([x EXCEPT !.capReported = (x.iteration >= maxIterations),
                          !.prompts = @ + 1]),
   h |-> h]

\* the catch block: report, conversationHistory.pop(), then rl.prompt()
catch(x, h, why) ==
  [x |-> return([x EXCEPT !.error = why, !.prompts = @ + 1]),
   h |-> pop(h)]

toolsFor_unfiltered(isPlanMode) ==
  {readFileTool, listDirectoryTool, editFileTool, runCommandTool}

toolsFor(isPlanMode) ==
  IF isPlanMode
  THEN {readFileTool, listDirectoryTool}
  ELSE {readFileTool, listDirectoryTool, editFileTool, runCommandTool}

\* the loop condition and the statements up to the awaited client.chat.complete
loopHead(x, h) ==
  IF x.iteration < maxIterations
  THEN [x |-> [x EXCEPT !.iteration = @ + 1,
                        !.availableTools = toolsFor(x.isPlanMode),
                        !.ncalls = @ + 1,
                        !.pc = "awaitCompletion",
                        !.toolCalls = <<>>, !.idx = 0],
        h |-> h]
  ELSE afterLoop(x, h)

\* "Block write operations in plan mode"
blockedInPlanMode_keepsRunCommand(isPlanMode, functionName) ==
  isPlanMode /\ functionName = "edit_file"

blockedInPlanMode(isPlanMode, functionName) ==
  isPlanMode /\ (functionName = "edit_file" \/ functionName = "run_command")

\* the for loop over toolCalls from call i up to the next awaited executeTool
RECURSIVE runToolCalls(_, _, _, _)
runToolCalls(x, i, h, e) ==
  IF i > Len(x.toolCalls) THEN loopHead(x, h)
  ELSE LET toolCall == x.toolCalls[i]
           functionName == toolCall.name
           functionArgsStr == argumentsString(toolCall.arguments)
       IN IF toolCall.id = "" THEN runToolCalls(x, i + 1, h, e)
          ELSE IF ~isToolName(functionName) THEN runToolCalls(x, i + 1, h, e)
          ELSE IF blockedInPlanMode(x.isPlanMode, functionName)
          THEN runToolCalls(
                 [x EXCEPT !.messages =
                    Append(@, toolMessage(refusalText(functionName), toolCall.id, e))],
                 i + 1, h, e)
          ELSE IF ~jsonParses(functionArgsStr) THEN catch(x, h, "parse")
          ELSE [x |-> [x EXCEPT !.pc = "awaitTool", !.idx = i,
                                !.fileWrites = @ + (IF functionName = "edit_file" THEN 1 ELSE 0),
                                !.spawns = @ + (IF functionName = "run_command" THEN 1 ELSE 0)],
                h |-> h]

\* message.content to the text of the final answer
RECURSIVE joinText(_)
joinText(chunks) ==
  IF chunks = <<>> THEN <<>>
  ELSE (IF Head(chunks).type = "text" THEN Head(chunks).text ELSE <<>>)
         \o joinText(Tail(chunks))

extractText_withoutSentinel(content) ==
  IF content.type = "string" THEN content.text
  ELSE IF content.type = "array" THEN joinText(content.chunks)
  ELSE NoResponse

extractText(content) ==
  LET assistantMessage ==
        IF content.type = "string" THEN content.text
        ELSE IF content.type = "array" THEN joinText(content.chunks)
        ELSE NoResponse
  IN IF assistantMessage = <<>> THEN NoResponse ELSE assistantMessage

Pending == {e \in 1..Len(exchanges) : exchanges[e].pc # "done"}

(* -------------------------- capability executor ------------------------ *)
\* The files of the working directory are files: to each absolute path,
\* whether the file exists and its bytes.  The text of a file is one token per
\* character; what the operating system does on a call (a fault of the file
\* system, the outcome of a spawned process) is the parameter env of a call.
Undefined == "<undefined>"
Cwd == "/cwd"
FilePath == "/cwd/f"
MissingDir == "/nodir"

\* path.isAbsolute(p) ? p : path.resolve(process.cwd(), p)
isAbsolute(p) == p \in {Cwd, FilePath, MissingDir}

resolve(p) ==
  IF isAbsolute(p) THEN p
  ELSE IF p = "f" THEN FilePath
  ELSE IF p = "." THEN Cwd
  ELSE MissingDir

\* the "utf-8" encoding of fs.writeFile and fs.readFile
utf8Bytes(c) ==
  CASE c = "a" -> <<97>>
    [] c = "b" -> <<98>>
    [] c = "$" -> <<36>>
    [] c = "&" -> <<38>>
    [] c = "U+00E9" -> <<195, 169>>
    [] OTHER -> <<239, 191, 189>>

RECURSIVE encode(_)
encode(s) == IF s = <<>> THEN <<>> ELSE utf8Bytes(Head(s)) \o encode(Tail(s))

RECURSIVE decode(_)
decode(bytes) ==
  IF bytes = <<>> THEN <<>>
  ELSE IF Head(bytes) = 97 THEN <<"a">> \o decode(Tail(bytes))
  ELSE IF Head(bytes) = 98 THEN <<"b">> \o decode(Tail(bytes))
  ELSE IF Head(bytes) = 36 THEN <<"$">> \o decode(Tail(bytes))
  ELSE IF Head(bytes) = 38 THEN <<"&">> \o decode(Tail(bytes))
  ELSE IF Len(bytes) >= 2 /\ Head(bytes) = 195 /\ bytes[2] = 169
  THEN <<"U+00E9">> \o decode(Tail(Tail(bytes)))
  ELSE <<"U+FFFD">> \o decode(Tail(bytes))

Returned(value) == [threw |-> FALSE, value |-> value, message |-> ""]
Thrown(message) == [threw |-> TRUE, value |-> <<>>, message |-> message]

\* fs.readFile(resolvedPath, "utf-8")
readFile(fs, filePath, fault) ==
  IF filePath = Undefined THEN Thrown("ERR_INVALID_ARG_TYPE")
  ELSE IF fault # "none" THEN Thrown(fault)
  ELSE IF resolve(filePath) # FilePath \/ ~fs[FilePath].exists THEN Thrown("ENOENT")
  ELSE Returned(decode(fs[FilePath].bytes))

\* fs.writeFile(resolvedPath, data, "utf-8"): value is the file system after it
writeFile_appending(fs, filePath, data, fault) ==
  IF filePath = Undefined THEN Thrown("ERR_INVALID_ARG_TYPE")
  ELSE IF fault # "none" THEN Thrown(fault)
  ELSE IF resolve(filePath) # FilePath THEN Thrown("ENOENT")
  ELSE [threw |-> FALSE, message |-> "",
        value |-> [fs EXCEPT ![FilePath] =
                     [exists |-> TRUE, bytes |-> @.bytes \o encode(data)]]]

writeFile(fs, filePath, data, fault) ==
  IF filePath = Undefined THEN Thrown("ERR_INVALID_ARG_TYPE")
  ELSE IF fault # "none" THEN Thrown(fault)
  ELSE IF resolve(filePath) # FilePath THEN Thrown("ENOENT")
  ELSE [threw |-> FALSE, message |-> "",
        value |-> [fs EXCEPT ![FilePath] = [exists |-> TRUE, bytes |-> encode(data)]]]

\* String.prototype.includes
includes_always(content, searchString) == TRUE

includes(content, searchString) ==
  \E i \in 1..(Len(content) - Len(searchString) + 1) :
    SubSeq(content, i, i + Len(searchString) - 1) = searchString

\* String.prototype.indexOf, counted from 1; 0 when there is no occurrence
indexOf(content, searchString) ==
  LET found == {i \in 1..(Len(content) - Len(searchString) + 1) :
                  SubSeq(content, i, i + Len(searchString) - 1) = searchString}
  IN IF found = {} THEN 0 ELSE CHOOSE i \in found : \A j \in found : i <= j

\* GetSubstitution of String.prototype.replace for a string pattern: in the
\* replacement $$ is a dollar sign, $& the matched text, $` the text before
\* the match, $' the text after it; any other character stands for itself
RECURSIVE getSubstitution(_, _, _, _)
getSubstitution(matched, before, after, replacement) ==
  IF replacement = <<>> THEN <<>>
  ELSE IF Head(replacement) = "$" /\ Len(replacement) >= 2
       THEN LET rest == Tail(Tail(replacement))
            IN CASE replacement[2] = "$" ->
                      <<"$">> \o getSubstitution(matched, before, after, rest)
                 [] replacement[2] = "&" ->
                      matched \o getSubstitution(matched, before, after, rest)
                 [] replacement[2] = "`" ->
                      before \o getSubstitution(matched, before, after, rest)
                 [] replacement[2] = "'" ->
                      after \o getSubstitution(matched, before, after, rest)
                 [] OTHER ->
                      <<"$">> \o getSubstitution(matched, before, after, Tail(replacement))
       ELSE <<Head(replacement)>> \o getSubstitution(matched, before, after, Tail(replacement))

\* content.replace(old_str, new_str) with a string pattern: the first occurrence
replace(content, old_str, new_str) ==
  LET position == indexOf(content, old_str)
      before == SubSeq(content, 1, position - 1)
      after == SubSeq(content, position + Len(old_str), Len(content))
  IN IF position = 0 THEN content
     ELSE before \o getSubstitution(old_str, before, after, new_str) \o after

\* the catch block of a capability: the error becomes the returned text
catchError_rethrows(prefix, message, fs) ==
  [raised |-> TRUE, result |-> <<>>, files |-> fs]

catchError(prefix, message, fs) ==
  [raised |-> FALSE, result |-> <<prefix, message>>, files |-> fs]

returns(result, fs) == [raised |-> FALSE, result |-> result, files |-> fs]

NotFoundText ==
  <<"Error: The specified old_str was not found in the file. Make sure to include the exact string including whitespace and newlines.">>
NoOutputText == <<"Command executed successfully (no output)">>

\* case "read_file"
read_file(fs, args, env) ==
  LET filePath == args.file_path
      content == readFile(fs, filePath, env.readFault)
  IN IF content.threw THEN catchError("Error reading file: ", content.message, fs)
     ELSE returns(content.value, fs)

\* case "list_directory": the entries of the working directory are its files
list_directory(fs, args, env) ==
  LET dirPath == IF args.directory_path = Undefined THEN "." ELSE args.directory_path
      resolvedPath == resolve(dirPath)
      size == IF env.statFault # "none" THEN <<>>
              ELSE <<" (", ToString(Len(fs[FilePath].bytes)), " bytes)">>
      items == IF fs[FilePath].exists THEN <<"file ", "f">> \o size ELSE <<>>
  IN IF env.readFault # "none"
     THEN catchError("Error listing directory: ", env.readFault, fs)
     ELSE IF resolvedPath # Cwd
     THEN catchError("Error listing directory: ", "ENOENT", fs)
     ELSE returns(items, fs)

\* case "edit_file"
edit_file(fs, args, env) ==
  LET filePath == args.file_path
      created == writeFile(fs, filePath, args.new_str, env.writeFault)
      content == readFile(fs, filePath, env.readFault)
      newContent == replace(content.value, args.old_str, args.new_str)
      edited == writeFile(fs, filePath, newContent, env.writeFault)
  IN IF args.old_str = <<>>
     THEN IF created.threw THEN catchError("Error editing file: ", created.message, fs)
          ELSE returns(<<"File created successfully: ", filePath>>, created.value)
     ELSE IF content.threw THEN catchError("Error editing file: ", content.message, fs)
     ELSE IF ~includes(content.value, args.old_str) THEN returns(NotFoundText, fs)
     ELSE IF edited.threw THEN catchError("Error editing file: ", edited.message, fs)
     ELSE returns(<<"File edited successfully: ", filePath>>, edited.value)

\* the text of a command that succeeded
successText_raw(output) == trim(output)

successText(output) ==
  IF trim(output) = <<>> THEN NoOutputText ELSE trim(output)

\* the catch block of run_command: error is what execAsync rejected with
failureText(error) ==
  LET output == error.stdout \o error.stderr
  IN IF error.stdout # <<>> \/ error.stderr # <<>>
     THEN IF error.code # Undefined
          THEN <<"Command failed with exit code ", error.code, ":\n">> \o trim(output)
          ELSE IF trim(output) # <<>> THEN trim(output)
          ELSE <<"Command failed: ", error.message>>
     ELSE <<"Error executing command: ", error.message>>

\* case "run_command": env.process is what the spawned shell did
run_command(fs, args, env) ==
  IF args.command = Undefined
  THEN returns(failureText([code |-> "ERR_INVALID_ARG_TYPE", stdout |-> <<>>, stderr |-> <<>>,
                            message |-> "ERR_INVALID_ARG_TYPE"]), fs)
  ELSE IF env.process.rejected THEN returns(failureText(env.process), fs)
  ELSE returns(successText(env.process.stdout \o env.process.stderr), fs)

\* the argument objects of the calls; a property that is missing is Undefined
Args(file_path, old_str, new_str, directory_path, command) ==
  [file_path |-> file_path, old_str |-> old_str, new_str |-> new_str,
   directory_path |-> directory_path, command |-> command]

ArgPaths == {"f", FilePath, Undefined}
OldStrs == {<<>>, <<"a">>, <<"b", "a">>, <<"U+00E9">>}
NewStrs == {<<>>, <<"b">>, <<"U+00E9">>, <<"$", "&">>, <<"$", "$">>}

ReadArgs == {Args(p, <<>>, <<>>, Undefined, Undefined) : p \in ArgPaths}
ListArgs == {Args(Undefined, <<>>, <<>>, d, Undefined) : d \in {Undefined, ".", Cwd, MissingDir}}
EditArgs == {Args(p, o, n, Undefined, Undefined) : p \in ArgPaths, o \in OldStrs, n \in NewStrs}
RunArgs == {Args(Undefined, <<>>, <<>>, Undefined, c) : c \in {"sh", Undefined}}

\* what execAsync settles with: rejected with an error that carries code,
\* stdout, stderr and message, or resolved with stdout and stderr
Process(rejected, code, stdout, stderr) ==
  [rejected |-> rejected, code |-> code, stdout |-> stdout, stderr |-> stderr,
   message |-> "Command failed: sh"]

NoProcess == Process(FALSE, "0", <<>>, <<>>)

Processes ==
  { NoProcess,
    Process(FALSE, "0", <<"o", "\n">>, <<>>),
    Process(FALSE, "0", <<" ", "\n">>, <<>>),
    Process(FALSE, "0", <<"o", "\n">>, <<"e", "\n">>),
    Process(TRUE, "3", <<>>, <<>>),
    Process(TRUE, "1", <<"o", "\n">>, <<"e", "\n">>),
    Process(TRUE, "1", <<>>, <<" ", "\n">>),
    Process(TRUE, "null", <<>>, <<>>),
    Process(TRUE, "null", <<"o", "\n">>, <<>>),
    Process(TRUE, Undefined, <<" ">>, <<>>),
    Process(TRUE, Undefined, <<"o">>, <<>>) }

Env(readFault, writeFault, statFault, process) ==
  [readFault |-> readFault, writeFault |-> writeFault, statFault |-> statFault,
   process |-> process]

Faults == {"none", "EACCES"}
FileEnvs == {Env("none", "none", "none", NoProcess), Env("EACCES", "none", "none", NoProcess),
             Env("none", "EACCES", "none", NoProcess)}
ListEnvs == {Env(r, "none", s, NoProcess) : r \in Faults, s \in Faults}
ProcessEnvs == {Env("none", "none", "none", p) : p \in Processes}

NoFile == [exists |-> FALSE, bytes |-> <<>>]
File(text) == [exists |-> TRUE, bytes |-> encode(text)]
InitialTexts == {<<"a", "b", "a">>}
NoTool == [toolName |-> "none", args |-> Args(Undefined, <<>>, <<>>, Undefined, Undefined),
           env |-> Env("none", "none", "none", NoProcess), result |-> <<>>, raised |-> FALSE]

(* -------------------------------- Init --------------------------------- *)
InitialPlanMode == FALSE

Init ==
  /\ conversationHistory = <<>>
  /\ planMode = InitialPlanMode
  /\ exchanges = <<>>
  /\ closed = FALSE
  /\ lineCount = 0
  /\ lastInput = <<>>
  /\ rounds = 0
  /\ files = [p \in {FilePath} |-> NoFile]
  /\ lastTool = NoTool

\* a session in which no line has been read yet, over any working directory
InitTools ==
  /\ conversationHistory = <<>>
  /\ planMode = InitialPlanMode
  /\ exchanges = <<>>
  /\ closed = FALSE
  /\ lineCount = 0
  /\ lastInput = <<>>
  /\ rounds = 0
  /\ files \in {[p \in {FilePath} |-> c] : c \in {NoFile} \cup {File(t) : t \in InitialTexts}}
  /\ lastTool = NoTool

(* ------------------------- command interpreter ------------------------ *)
\* rl.on("close"): process.exit(0), which rl.close() runs before it returns
processExited_never == FALSE

processExited == closed

isExit_onlyExit(trimmed) == trimmed = S_exit

isExit(trimmed) == trimmed = S_exit \/ trimmed = S_quit

\* planModeState.setPlanMode(false) of the clear command
clearedMode_plan == TRUE

clearedMode_unchanged == planMode

clearedMode == FALSE

\* trimmed.slice(5).trim()
planMessageOf_untrimmed(trimmed) == slice(trimmed, 5)

planMessageOf(trimmed) == trim(slice(trimmed, 5))

\* if (planMessage): the plan message is forwarded to the chat
forwardsPlanMessage_always(planMessage) == TRUE

forwardsPlanMessage(planMessage) == planMessage # <<>>

isApprovalCommand_anyYes(trimmed) ==
  LET lowerTrimmed == toLowerCase(trimmed)
  IN \/ lowerTrimmed = S_slashApprove
     \/ lowerTrimmed = S_approve
     \/ startsWith(lowerTrimmed, S_yes)
     \/ startsWith(lowerTrimmed, S_slashApprove)

isApprovalCommand_caseSensitive(trimmed) ==
  \/ trimmed = S_slashApprove
  \/ trimmed = S_approve
  \/ trimmed = S_yes
  \/ trimmed = S_yesCommaImplement
  \/ trimmed = S_yesImplement
  \/ startsWith(trimmed, S_slashApprove)

isApprovalCommand(trimmed) ==
  LET lowerTrimmed == toLowerCase(trimmed)
  IN \/ lowerTrimmed = S_slashApprove
     \/ lowerTrimmed = S_approve
     \/ lowerTrimmed = S_yes
     \/ lowerTrimmed = S_yesCommaImplement
     \/ lowerTrimmed = S_yesImplement
     \/ startsWith(lowerTrimmed, S_slashApprove)

\* "If already in plan mode (from previous command), remind user"
reminder_alsoForPlanLines(isPlanMode, trimmed) ==
  isPlanMode /\ ~isApprovalCommand(trimmed)

reminder(isPlanMode, trimmed) ==
  isPlanMode /\ ~startsWith(trimmed, S_plan) /\ ~isApprovalCommand(trimmed)

\* userMessage = "Please implement the plan we discussed."
approvedMessage_typed(trimmed) == trimmed

approvedMessage(trimmed) == ImplementInstruction

(* ------------------------------- actions ------------------------------- *)
\* rl.on("line"): processCommand(input) up to its first await or its return
processCommand(input) ==
  LET trimmed == trim(input)
      isPlan == startsWith(trimmed, S_plan)
      planMessage == planMessageOf(trimmed)
      \* isPlanMode as it is before the approval block
      isPlanMode1 == IF isPlan THEN TRUE ELSE planMode
      approved == isApprovalCommand(trimmed) /\ isPlanMode1
      userMessage ==
        IF approved THEN approvedMessage(trimmed)
        ELSE IF isPlan THEN planMessage ELSE trimmed
      isPlanMode == IF approved THEN FALSE ELSE isPlanMode1
      e == Len(exchanges) + 1
      history1 == Append(conversationHistory, Turn("user", userMessage, e))
      started == loopHead([newExchange(isPlanMode,
                                       buildMessages(isPlanMode, history1),
                                       conversationHistory)
                             EXCEPT !.reminded = reminder(isPlanMode1, trimmed)],
                          history1)
  IN /\ ~processExited
     /\ lineCount < MaxLines
     /\ \A p \in Pending : ~exchanges[p].solo
     /\ UNCHANGED <<rounds, files, lastTool>>
     /\ lineCount' = lineCount + 1
     /\ lastInput' = input
     /\ IF isExit(trimmed)
        THEN /\ closed' = TRUE
             /\ UNCHANGED <<conversationHistory, planMode, exchanges>>
        ELSE IF trimmed = S_clear
        THEN /\ conversationHistory' = <<>>
             /\ planMode' = clearedMode
             /\ UNCHANGED <<exchanges, closed>>
        ELSE IF trimmed = S_help
        THEN UNCHANGED <<conversationHistory, planMode, exchanges, closed>>
        ELSE IF trimmed = <<>>
        THEN UNCHANGED <<conversationHistory, planMode, exchanges, closed>>
        ELSE IF isPlan /\ ~forwardsPlanMessage(planMessage)
        THEN /\ planMode' = TRUE
             /\ UNCHANGED <<conversationHistory, exchanges, closed>>
        ELSE IF isApprovalCommand(trimmed) /\ ~isPlanMode1
        THEN UNCHANGED <<conversationHistory, planMode, exchanges, closed>>
        ELSE /\ Cardinality(Pending) < MaxPending
             /\ planMode' = (IF isPlan THEN TRUE ELSE IF approved THEN FALSE ELSE planMode)
             /\ conversationHistory' = started.h
             /\ exchanges' = Append(exchanges, started.x)
             /\ UNCHANGED closed

\* what a suspended call does when its await settles
resume_undoesModeOnError(e, r) ==
  /\ exchanges' = [exchanges EXCEPT ![e] = r.x]
  /\ conversationHistory' = r.h
  /\ planMode' = (IF r.x.error # "none" THEN ~exchanges[e].isPlanMode ELSE planMode)
  /\ UNCHANGED <<closed, lineCount, lastInput, files, lastTool>>

resume(e, r) ==
  /\ exchanges' = [exchanges EXCEPT ![e] = r.x]
  /\ conversationHistory' = r.h
  /\ UNCHANGED <<planMode, closed, lineCount, lastInput, files, lastTool>>

\* client.chat.complete rejects
completeThrows(e) ==
  /\ ~processExited
  /\ UNCHANGED rounds
  /\ e \in Pending /\ exchanges[e].pc = "awaitCompletion"
  /\ resume(e, catch(exchanges[e], conversationHistory, "completion"))

\* client.chat.complete resolves with no choice
completeNoChoice(e) ==
  /\ ~processExited
  /\ UNCHANGED rounds
  /\ e \in Pending /\ exchanges[e].pc = "awaitCompletion"
  /\ resume(e, afterLoop([exchanges[e] EXCEPT !.noResponse = TRUE], conversationHistory))

\* client.chat.complete resolves with tool calls; budget is the number of
\* tool rounds of the session that are explored in full
completeToolCallsWithin(e, toolCalls, budget) ==
  /\ ~processExited
  /\ e \in Pending /\ exchanges[e].pc = "awaitCompletion"
  /\ IF rounds < budget
     THEN /\ toolCalls \in ToolRequests
          /\ rounds' = rounds + 1
     ELSE /\ toolCalls = PlainRequest
          /\ exchanges[e].plainRun /\ Pending = {e}
          /\ UNCHANGED rounds
  /\ resume(e, runToolCalls([exchanges[e] EXCEPT
                               !.messages = Append(@, assistantMsg(toolCalls, e)),
                               !.toolCalls = toolCalls,
                               !.plainRun = @ /\ toolCalls = PlainRequest,
                               !.solo = (rounds >= budget)],
                            1, conversationHistory, e))

completeToolCalls(e, toolCalls) == completeToolCallsWithin(e, toolCalls, MaxRounds)

\* client.chat.complete resolves with a message without tool calls
completeFinal(e, content) ==
  /\ ~processExited
  /\ UNCHANGED rounds
  /\ e \in Pending /\ exchanges[e].pc = "awaitCompletion"
  /\ resume(e, afterLoop([exchanges[e] EXCEPT !.finalAnswer = TRUE, !.response = content],
                         Append(conversationHistory,
                                Turn("assistant", extractText(content), e))))

\* executeTool resolves with its text
executeToolReturns(e, result) ==
  /\ ~processExited
  /\ e \in Pending /\ exchanges[e].pc = "awaitTool"
  /\ result \in (IF exchanges[e].solo THEN {PlainResult} ELSE ToolResults)
  /\ UNCHANGED rounds
  /\ LET x == exchanges[e]
     IN resume(e, runToolCalls([x EXCEPT !.messages =
                                  Append(@, toolMessage(result, x.toolCalls[x.idx].id, e)),
                                         !.plainRun = @ /\ result = PlainResult],
                               x.idx + 1, conversationHistory, e))

Next ==
  \/ \E input \in InputLines : processCommand(input)
  \/ \E e \in 1..MaxLines, toolCalls \in ToolRequests : completeToolCalls(e, toolCalls)
  \/ \E e \in 1..MaxLines, content \in FinalContents : completeFinal(e, content)
  \/ \E e \in 1..MaxLines : completeNoChoice(e)
  \/ \E e \in 1..MaxLines : completeThrows(e)
  \/ \E e \in 1..MaxLines, result \in ToolResults : executeToolReturns(e, result)

Spec == Init /\ [][Next]_vars

\* The sessions of two chat lines whose completion responses request
\* PlainRequest or give the answer "ok": one more tool round than in Spec is
\* explored in full, so that each of two pending exchanges can have one.
NextOverlap ==
  \/ processCommand(<<"h", "i">>)
  \/ \E e \in 1..MaxLines : completeToolCallsWithin(e, PlainRequest, MaxRounds + 1)
  \/ \E e \in 1..MaxLines : executeToolReturns(e, PlainResult)
  \/ \E e \in 1..MaxLines :
       completeFinal(e, [type |-> "string", text |-> <<"ok">>, chunks |-> <<>>])

SpecOverlap == Init /\ [][NextOverlap]_vars

\* The sessions of chat lines and /plan lines whose completion responses are
\* final answers, of every shape of content.
NextAnswers ==
  \/ \E input \in {<<"h", "i">>, <<" ">> \o S_plan \o <<" ", " ", "f", "i", "x", " ">>} :
       processCommand(input)
  \/ \E e \in 1..MaxLines, content \in AnswerContents : completeFinal(e, content)

SpecAnswers == Init /\ [][NextAnswers]_vars

\* the input lines of InterpreterLines: every command in several spellings,
\* and chat messages that resemble a command
S_implement == <<"i", "m", "p", "l", "e", "m", "e", "n", "t">>
S_fix == <<"f", "i", "x">>

InterpreterLines ==
  { S_exit,
    <<" ">> \o S_quit \o <<" ">>,
    <<"E", "X", "I", "T">>,
    S_quit \o <<" ">> \o S_fix,
    S_clear,
    <<" ">> \o S_clear,
    S_help,
    <<>>,
    <<" ", " ">>,
    S_plan,
    S_plan \o <<" ">>,
    S_plan \o <<" ">> \o S_fix,
    <<" ">> \o S_plan \o <<" ", " ">> \o S_fix \o <<" ">>,
    S_plan \o S_fix,
    S_plan \o <<" ">> \o S_yes,
    S_plan \o <<" ">> \o S_slashApprove,
    S_slashApprove,
    <<"/", "A", "P", "P", "R", "O", "V", "E">>,
    S_slashApprove \o <<" ">> \o S_fix,
    S_approve,
    S_approve \o <<"d">>,
    S_yes,
    <<" ", "Y", "E", "S", " ">>,
    S_yesCommaImplement,
    S_yesImplement,
    <<"Y", "e", "s", " ">> \o S_implement,
    S_yes \o <<" ", " ">> \o S_implement,
    S_yes \o <<" ">> \o S_fix,
    <<"h", "i">> }

\* The sessions in which the lines of InterpreterLines are read and no
\* completion call settles: what the interpreter does with each line, in
\* either mode.
NextLines == \E input \in InterpreterLines : processCommand(input)

SpecLines == Init /\ [][NextLines]_vars

\* executeTool(toolName, args): one call of the capability executor
executeTool(toolName, args, env) ==
  LET r == CASE toolName = "read_file" -> read_file(files, args, env)
             [] toolName = "list_directory" -> list_directory(files, args, env)
             [] toolName = "edit_file" -> edit_file(files, args, env)
             [] toolName = "run_command" -> run_command(files, args, env)
             [] OTHER -> returns(<<"Unknown tool: ", toolName>>, files)
  IN /\ files' = r.files
     /\ lastTool' = [toolName |-> toolName, args |-> args, env |-> env,
                     result |-> r.result, raised |-> r.raised]
     /\ UNCHANGED sessionVars

\* The calls of the capability executor, one after the other, with every
\* argument object of ReadArgs, ListArgs, EditArgs and RunArgs, over a working
\* directory whose file system and processes may fail.
NextTools ==
  \/ \E args \in ReadArgs, env \in FileEnvs : executeTool("read_file", args, env)
  \/ \E args \in ListArgs, env \in ListEnvs : executeTool("list_directory", args, env)
  \/ \E args \in EditArgs, env \in FileEnvs : executeTool("edit_file", args, env)
  \/ \E args \in RunArgs, env \in ProcessEnvs : executeTool("run_command", args, env)

SpecTools == InitTools /\ [][NextTools]_vars

(* ------------------------ vocabulary of the claims --------------------- *)
Last(h) == h[Len(h)]

Mutating == {"edit_file", "run_command"}

Recognized == {"read_file", "list_directory", "edit_file", "run_command"}

Spaces(n) == [i \in 1..n |-> " "]

\* l is core with white space around it
Padded(l, core) ==
  \E a \in 0..(Len(l) - Len(core)) :
    l = Spaces(a) \o core \o Spaces(Len(l) - Len(core) - a)

\* l is /plan and a text, with white space around them and between them
PlanLine(l) ==
  \E a \in 0..(Len(l) - Len(S_plan)) :
    /\ SubSeq(l, 1, a) = Spaces(a)
    /\ SubSeq(l, a + 1, a + Len(S_plan)) = S_plan
    /\ \E i \in (a + Len(S_plan) + 1)..Len(l) : l[i] # " "

\* l is /plan, white space, the text t, with white space around it
PlanWithText(l, t) ==
  /\ t # <<>> /\ Head(t) # " " /\ Last(t) # " "
  /\ \E a \in 0..Len(l), k \in 0..Len(l) :
       /\ a + Len(S_plan) + k + Len(t) <= Len(l)
       /\ l = Spaces(a) \o S_plan \o Spaces(k) \o t
               \o Spaces(Len(l) - a - Len(S_plan) - k - Len(t))

\* the step handles an input line
LineHandled == lineCount' # lineCount

\* exchange e ends in the step
Ends(e) == exchanges[e].pc # "done" /\ exchanges'[e].pc = "done"

\* the index of the last assistant turn of msgs that requests tool calls, 0 if none
LastRound(msgs) ==
  LET R == {k \in 1..Len(msgs) : msgs[k].role = "assistant" /\ msgs[k].toolCalls # <<>>}
  IN IF R = {} THEN 0 ELSE CHOOSE k \in R : \A m \in R : m <= k

\* the tool calls of that turn
RoundCalls(msgs) ==
  IF LastRound(msgs) = 0 THEN <<>> ELSE msgs[LastRound(msgs)].toolCalls

\* how many of them the for loop has left behind
Processed(x) ==
  IF x.pc = "awaitTool" THEN x.idx - 1 ELSE Len(RoundCalls(x.messages))

\* the index of the nearest assistant turn before position j, 0 if none
NearestAssistant(msgs, j) ==
  LET A == {k \in 1..(j - 1) : msgs[k].role = "assistant"}
  IN IF A = {} THEN 0 ELSE CHOOSE k \in A : \A m \in A : m <= k

IsRefusal(m, call) ==
  /\ m.role = "tool"
  /\ m.toolCallId = call.id
  /\ m.content = <<"Error: Cannot use ", call.name, " in plan mode.">>

\* the upper-case form of a letter of the approval words
UpperCase(c) ==
  CASE c = "a" -> "A"
    [] c = "e" -> "E"
    [] c = "i" -> "I"
    [] c = "o" -> "O"
    [] c = "p" -> "P"
    [] c = "r" -> "R"
    [] c = "s" -> "S"
    [] c = "t" -> "T"
    [] c = "v" -> "V"
    [] c = "x" -> "X"
    [] c = "y" -> "Y"
    [] OTHER -> c

\* m spells the word w, in any letter case
SameWord(m, w) ==
  /\ Len(m) = Len(w)
  /\ \A i \in 1..Len(w) : m[i] = w[i] \/ m[i] = UpperCase(w[i])

ApprovalWords == {S_slashApprove, S_approve, S_yes, S_yesCommaImplement, S_yesImplement}

\* l is an approval input, with white space around it
ApprovalLine(l) ==
  LET m == trim(l)
  IN \/ \E w \in ApprovalWords : SameWord(m, w)
     \/ /\ Len(m) >= Len(S_slashApprove)
        /\ SameWord(SubSeq(m, 1, Len(S_slashApprove)), S_slashApprove)

\* the user turn that exchange e appended carries the canonical instruction
Approved(x, e) ==
  \E k \in 1..Len(x.messages) :
    /\ x.messages[k].role = "user" /\ x.messages[k].by = e
    /\ x.messages[k].content = <<"Please implement the plan we discussed.">>

AllCapabilities == {"read_file", "list_directory", "edit_file", "run_command"}

ReadOnly == {"read_file", "list_directory"}

(* -------------------------------- claims ------------------------------- *)

\* C1: in an exchange that runs under Plan mode no edit_file or run_command is
\* ever handed to the capability executor (no file write, no process spawn, no
\* such call being executed); every such call the loop has passed (a call that
\* carries an id) has a refusal tool turn keyed by its id after the assistant
\* turn, and the loop goes on to the calls after it.
C1_PlanModeRefusesMutating ==
  \A e \in Pending :
    LET x == exchanges[e]
        p == LastRound(x.messages)
        calls == RoundCalls(x.messages)
    IN x.isPlanMode =>
         /\ x.fileWrites = 0 /\ x.spawns = 0
         /\ x.pc = "awaitTool" => x.toolCalls[x.idx].name \notin Mutating
         /\ \A i \in 1..Processed(x) :
              (calls[i].name \in Mutating /\ calls[i].id # "")
                => \E j \in (p + 1)..Len(x.messages) : IsRefusal(x.messages[j], calls[i])

\* a Plan-mode exchange went through a round of two mutating calls: both were
\* refused, nothing was executed and the next completion call is under way
C1_Witness ==
  \E e \in Pending :
    LET x == exchanges[e]
        p == LastRound(x.messages)
    IN /\ x.isPlanMode /\ x.pc = "awaitCompletion" /\ p # 0
       /\ Len(x.messages) = p + 2
       /\ IsRefusal(x.messages[p + 1], [id |-> "c1", name |-> "edit_file"])
       /\ IsRefusal(x.messages[p + 2], [id |-> "c2", name |-> "run_command"])
       /\ x.fileWrites = 0 /\ x.spawns = 0

\* C2 (as claimed): when an exchange ends because the completion boundary
\* threw, the conversation history is what it was just before the user's
\* message of that exchange was submitted.
C2_RollbackRestoresHistory ==
  [][\A e \in 1..Len(exchanges) :
       (Ends(e) /\ exchanges'[e].error = "completion")
         => conversationHistory' = exchanges[e].histBefore]_vars

\* C3 (as claimed): an exchange in which every completion response requested a
\* tool call ends with exactly maxIterations completion calls made and with
\* the iteration-cap report.
C3_AlwaysToolCallsEndsAtCap ==
  [][\A e \in 1..Len(exchanges) :
       (/\ Ends(e)
        /\ ~exchanges'[e].finalAnswer
        /\ ~exchanges'[e].noResponse
        /\ exchanges'[e].error # "completion")
         => /\ exchanges[e].ncalls = maxIterations
            /\ exchanges'[e].capReported]_vars

\* C4 (as claimed): when the next completion call is made after an assistant
\* turn that requested N tool calls, exactly N tool turns follow that turn,
\* keyed one to one by the ids of the N calls.
C4_OneToolTurnPerCall ==
  \A e \in Pending :
    LET x == exchanges[e]
        p == LastRound(x.messages)
        calls == RoundCalls(x.messages)
        N == Len(calls)
    IN (x.pc = "awaitCompletion" /\ p # 0)
         => /\ Len(x.messages) = p + N
            /\ \E f \in [1..N -> 1..N] :
                 /\ \A a \in 1..N, b \in 1..N : f[a] = f[b] => a = b
                 /\ \A k \in 1..N :
                      /\ x.messages[p + k].role = "tool"
                      /\ x.messages[p + k].toolCallId = calls[f[k]].id

GetsToolTurn(call) == call.id # "" /\ call.name \in Recognized

CallId(call) == call.id

\* C4 (amended): at every moment of a tool round the turns after the assistant
\* turn are tool turns, one for each call the loop has passed that carries an
\* id and names a recognized capability, in request order and keyed by that
\* call's id; a call without id or with an unknown name gets none.
C4_OneToolTurnPerDispatchedCall ==
  \A e \in Pending :
    LET x == exchanges[e]
        p == LastRound(x.messages)
        passed == SelectSeq(SubSeq(RoundCalls(x.messages), 1, Processed(x)), GetsToolTurn)
    IN p # 0 =>
         /\ Len(x.messages) = p + Len(passed)
         /\ \A k \in 1..Len(passed) :
              /\ x.messages[p + k].role = "tool"
              /\ x.messages[p + k].toolCallId = CallId(passed[k])

\* the next completion call is under way after a turn that requested three
\* calls, and one tool turn follows that turn
C4_Witness ==
  \E e \in Pending :
    LET x == exchanges[e]
        p == LastRound(x.messages)
    IN /\ x.pc = "awaitCompletion" /\ p # 0
       /\ Len(x.messages[p].toolCalls) = 3
       /\ Len(x.messages) = p + 1
       /\ x.messages[p + 1].role = "tool"

\* C5: every tool turn of an outbound message sequence, and of the history,
\* has a preceding assistant turn, and its toolCallId is the id of one of the
\* tool calls of the nearest one.
TurnsMatched(msgs) ==
  \A j \in 1..Len(msgs) :
    msgs[j].role = "tool" =>
      LET a == NearestAssistant(msgs, j)
      IN /\ a # 0
         /\ \E i \in 1..Len(msgs[a].toolCalls) : msgs[a].toolCalls[i].id = msgs[j].toolCallId

C5_NoOrphanToolTurn ==
  /\ TurnsMatched(conversationHistory)
  /\ \A e \in Pending : TurnsMatched(exchanges[e].messages)

\* a sequence holds the executor's results of two calls of one assistant turn
C5_Witness ==
  \E e \in Pending :
    LET msgs == exchanges[e].messages
    IN \E j \in 3..Len(msgs) :
         /\ msgs[j].role = "tool" /\ msgs[j].toolCallId = "c2"
         /\ msgs[j].content \in ToolResults
         /\ msgs[j - 1].role = "tool" /\ msgs[j - 1].toolCallId = "c1"
         /\ msgs[j - 1].content \in ToolResults
         /\ msgs[j - 2].role = "assistant"

\* C6 (as claimed): no input line is handled while an exchange is suspended on
\* a completion call or on a capability execution.
C6_OneLineAtATime ==
  [][LineHandled => Pending = {}]_vars

\* C7 (as claimed): when an exchange ends because the completion boundary
\* threw, exactly the last turn of the history is removed and it is the user
\* turn that this exchange appended.
C7_RollbackRemovesOwnUserTurn ==
  [][\A e \in 1..Len(exchanges) :
       (Ends(e) /\ exchanges'[e].error = "completion")
         => /\ conversationHistory # <<>>
            /\ Last(conversationHistory).role = "user"
            /\ Last(conversationHistory).by = e
            /\ conversationHistory' = SubSeq(conversationHistory, 1, Len(conversationHistory) - 1)]_vars

\* C8: handling the input clear leaves the history empty and the mode
\* Implementation, whatever they were, and starts no exchange.
C8_ClearResets ==
  [][(LineHandled /\ Padded(lastInput', S_clear))
       => /\ conversationHistory' = <<>>
          /\ planMode' = FALSE
          /\ exchanges' = exchanges]_vars

\* clear was the last line handled, after a Plan-mode exchange that had put its
\* user turn and its answer in the history
C8_Witness ==
  /\ lastInput = S_clear /\ lineCount = 2
  /\ conversationHistory = <<>> /\ ~planMode
  /\ Len(exchanges) = 1 /\ exchanges[1].isPlanMode /\ exchanges[1].finalAnswer

\* C9: handling /plan without a message sets the mode to Plan, starts no
\* exchange (no completion call) and leaves the history as it is.
C9_BarePlanOnlyFlipsMode ==
  [][(LineHandled /\ Padded(lastInput', S_plan))
       => /\ planMode' = TRUE
          /\ conversationHistory' = conversationHistory
          /\ exchanges' = exchanges]_vars

\* /plan was the last line handled, with a turn in the history
C9_Witness ==
  /\ lastInput = S_plan /\ lineCount = 2
  /\ planMode /\ conversationHistory # <<>>

\* C10: handling /plan <text> sets the mode to Plan and appends exactly one
\* user turn, whose content is <text> without the prefix and without white
\* space around it; the exchange it starts runs as a Plan-mode exchange: its
\* first completion call carries the plan-mode prompt, that user turn and the
\* read-only capabilities.
C10_PlanWithMessage ==
  [][(LineHandled /\ PlanLine(lastInput'))
       => LET n == Len(exchanges')
              x == exchanges'[n]
              t == Last(conversationHistory').content
          IN /\ planMode' = TRUE
             /\ Len(conversationHistory') = Len(conversationHistory) + 1
             /\ SubSeq(conversationHistory', 1, Len(conversationHistory)) = conversationHistory
             /\ Last(conversationHistory').role = "user"
             /\ PlanWithText(lastInput', t)
             /\ n = Len(exchanges) + 1
             /\ x.isPlanMode /\ x.pc = "awaitCompletion" /\ x.ncalls = 1
             /\ x.availableTools = {"read_file", "list_directory"}
             /\ x.messages[1].content = <<"SYSTEM_PROMPT", "[PLAN MODE ACTIVE]">>
             /\ Last(x.messages).role = "user" /\ Last(x.messages).content = t]_vars

\* " /plan  fix " was the last line handled: its exchange is suspended on its
\* first completion call and the history ends with the user turn "fix"
C10_Witness ==
  /\ lastInput = <<" ">> \o S_plan \o <<" ", " ", "f", "i", "x", " ">>
  /\ planMode
  /\ conversationHistory # <<>>
  /\ Last(conversationHistory).content = <<"f", "i", "x">>
  /\ exchanges # <<>>
  /\ Last(exchanges).isPlanMode /\ Last(exchanges).iteration = 1

\* C11: handling an approval input (in any letter case) while the mode is
\* Implementation starts no exchange and makes no completion call, and leaves
\* the history and the mode as they are.
C11_ApprovalOutsidePlanIsNoOp ==
  [][(LineHandled /\ ~planMode /\ ApprovalLine(lastInput'))
       => /\ conversationHistory' = conversationHistory
          /\ planMode' = planMode
          /\ exchanges' = exchanges]_vars

\* YES was the last line handled, in Implementation mode, after an exchange
\* that had put its user turn and its answer in the history
C11_Witness ==
  /\ lastInput = <<"Y", "E", "S">> /\ lineCount = 2
  /\ ~planMode /\ Len(conversationHistory) = 2
  /\ Len(exchanges) = 1 /\ ~exchanges[1].isPlanMode /\ exchanges[1].finalAnswer

\* C12: handling an approval input while the mode is Plan sets the mode to
\* Implementation and appends exactly one user turn, whose content is the
\* canonical instruction and not the line typed; the exchange it starts runs
\* as an Implementation exchange: plain system prompt, all four capabilities
\* advertised on its completion calls, and no call of it refused by the gate.
C12_ApprovalInPlanImplements ==
  [][/\ (LineHandled /\ planMode /\ ApprovalLine(lastInput'))
          => LET n == Len(exchanges')
                 x == exchanges'[n]
             IN /\ planMode' = FALSE
                /\ conversationHistory' =
                     Append(conversationHistory,
                            Turn("user", <<"Please implement the plan we discussed.">>, n))
                /\ Last(conversationHistory').content # trim(lastInput')
                /\ n = Len(exchanges) + 1
                /\ x.pc = "awaitCompletion" /\ x.ncalls = 1
                /\ Approved(x, n)
     /\ \A e \in 1..Len(exchanges') :
          LET x == exchanges'[e]
          IN (x.pc # "done" /\ Approved(x, e))
               => /\ ~x.isPlanMode
                  /\ x.messages[1].content = <<"SYSTEM_PROMPT">>
                  /\ x.pc = "awaitCompletion" => x.availableTools = AllCapabilities
                  /\ \A k \in 1..Len(x.messages), name \in Mutating :
                       x.messages[k].content # <<"Error: Cannot use ", name, " in plan mode.">>]_vars

\* /plan then YES: the exchange of the approval is executing the edit_file
\* that its first completion response requested
C12_Witness ==
  /\ lastInput = <<"Y", "E", "S">> /\ ~planMode
  /\ Len(exchanges) = 1 /\ Approved(exchanges[1], 1)
  /\ exchanges[1].pc = "awaitTool"
  /\ exchanges[1].toolCalls[exchanges[1].idx].name = "edit_file"
  /\ exchanges[1].fileWrites = 1

\* C13 (as claimed): when an exchange ends by running into the iteration cap,
\* the user turn, the assistant tool-call turns and the tool turns that the
\* exchange appended are all in the conversation history afterwards.
C13_CapKeepsTurnsInHistory ==
  [][\A e \in 1..Len(exchanges) :
       (/\ Ends(e)
        /\ exchanges'[e].capReported
        /\ ~exchanges'[e].finalAnswer
        /\ ~exchanges'[e].noResponse)
         => \A k \in 1..Len(exchanges[e].messages) :
              exchanges[e].messages[k].by = e
                => \E j \in 1..Len(conversationHistory') :
                     conversationHistory'[j] = exchanges[e].messages[k]]_vars

\* C14 (as claimed): when the execution of a call returns and the next call
\* of the round (one with an id and a recognized name that the gate lets
\* through) carries a payload that is not JSON, that call gets a tool turn
\* keyed by its id, the exchange goes on, and the history keeps its turns.
C14_ParseFailureIsToolError ==
  [][\A e \in 1..Len(exchanges) :
       LET x == exchanges[e]
           i == x.idx + 1
           call == x.toolCalls[i]
       IN (/\ x.pc = "awaitTool" /\ exchanges'[e] # x
           /\ i <= Len(x.toolCalls)
           /\ call.id # "" /\ call.name \in Recognized
           /\ ~(x.isPlanMode /\ call.name \in Mutating)
           /\ ~jsonParses(argumentsString(call.arguments)))
            => /\ exchanges'[e].pc # "done"
               /\ \E k \in 1..Len(exchanges'[e].messages) :
                    /\ exchanges'[e].messages[k].role = "tool"
                    /\ exchanges'[e].messages[k].toolCallId = call.id
               /\ conversationHistory' = conversationHistory]_vars

\* a call the loop skips: no id, or a name that is not a capability
Skipped(call) == call.id = "" \/ call.name \notin Recognized

\* the tool rounds that exchange e has put in its messages
RoundsOf(msgs, e) ==
  Cardinality({k \in 1..Len(msgs) :
                 msgs[k].role = "assistant" /\ msgs[k].toolCalls # <<>> /\ msgs[k].by = e})

\* C15: a call without id or with an unknown name is skipped and nothing
\* more.  The executor is never running such a call.  The step in which the
\* loop passes one leaves the history as it is, and the exchange goes on:
\* every call after it that the loop has passed and that carries an id and
\* a recognized name has its tool turn, and once the loop has passed the
\* whole round the next completion call is under way (one completion call
\* more than tool rounds).
C15_SkippedCallsAreNotFatal ==
  [][\A e \in 1..Len(exchanges') :
       LET y == exchanges'[e]
           p == LastRound(y.messages)
           calls == RoundCalls(y.messages)
           before == IF e > Len(exchanges) \/ LastRound(exchanges[e].messages) # p
                     THEN 0 ELSE Processed(exchanges[e])
       IN /\ y.pc = "awaitTool" => ~Skipped(y.toolCalls[y.idx])
          /\ \A i \in 1..Processed(y) :
               (y.pc # "done" /\ p # 0 /\ Skipped(calls[i]))
                 => /\ i > before => conversationHistory' = conversationHistory
                    /\ y.error = "none"
                    /\ \A j \in (i + 1)..Processed(y) :
                         GetsToolTurn(calls[j])
                           => \E k \in (p + 1)..Len(y.messages) :
                                /\ y.messages[k].role = "tool"
                                /\ y.messages[k].toolCallId = calls[j].id
                    /\ y.pc = "awaitCompletion"
                         => /\ y.iteration = RoundsOf(y.messages, e) + 1
                            /\ y.ncalls = y.iteration]_vars

\* a round of three calls, the first without id and the second with an unknown
\* name: the third was executed, its tool turn is the only one of the round,
\* the second completion call is under way and the user turn is in the history
C15_Witness ==
  \E e \in Pending :
    LET x == exchanges[e]
        p == LastRound(x.messages)
    IN /\ x.pc = "awaitCompletion" /\ x.iteration = 2 /\ p # 0
       /\ Len(x.messages[p].toolCalls) = 3
       /\ x.messages[p].toolCalls[1].id = ""
       /\ x.messages[p].toolCalls[2].name \notin Recognized
       /\ Len(x.messages) = p + 1
       /\ x.messages[p + 1].toolCallId = x.messages[p].toolCalls[3].id
       /\ x.messages[p + 1].content \in ToolResults
       /\ \E j \in 1..Len(conversationHistory) :
            conversationHistory[j].role = "user" /\ conversationHistory[j].by = e

\* C16: on every completion call of an exchange the capabilities advertised
\* are read_file and list_directory when the exchange runs under Plan mode
\* (its system prompt carries the plan-mode rules), and all four otherwise.
C16_AdvertisedCapabilities ==
  \A e \in Pending :
    LET x == exchanges[e]
    IN x.pc = "awaitCompletion"
         => /\ x.isPlanMode <=> (x.messages[1].content = <<"SYSTEM_PROMPT", "[PLAN MODE ACTIVE]">>)
            /\ x.availableTools = IF x.isPlanMode THEN ReadOnly ELSE AllCapabilities

\* the second completion call of a Plan-mode exchange is under way, with the
\* read-only capabilities, and so is a completion call of an Implementation
\* exchange, with all four
C16_Witness ==
  \E e \in Pending, f \in Pending :
    /\ exchanges[e].isPlanMode /\ exchanges[e].pc = "awaitCompletion"
    /\ exchanges[e].iteration = 2 /\ exchanges[e].availableTools = ReadOnly
    /\ ~exchanges[f].isPlanMode /\ exchanges[f].pc = "awaitCompletion"
    /\ exchanges[f].availableTools = AllCapabilities

\* C17 (as claimed): the execution of a call starts only when every earlier
\* call of its round that carries an id and a recognized name has its tool
\* turn, and no two capability executions are under way at the same time.
C17_ExecutionsInOrderNeverOverlap ==
  /\ \A e \in Pending :
       LET x == exchanges[e]
           p == LastRound(x.messages)
       IN x.pc = "awaitTool"
            => \A i \in 1..(x.idx - 1) :
                 GetsToolTurn(x.toolCalls[i])
                   => \E k \in (p + 1)..Len(x.messages) :
                        /\ x.messages[k].role = "tool"
                        /\ x.messages[k].toolCallId = x.toolCalls[i].id
  /\ \A e \in Pending, f \in Pending :
       (exchanges[e].pc = "awaitTool" /\ exchanges[f].pc = "awaitTool") => e = f

\* C18 (as claimed): an exchange that received its final answer, on whatever
\* iteration, does not report the iteration cap.
C18_FinalAnswerExcludesCapReport ==
  \A e \in 1..Len(exchanges) :
    exchanges[e].finalAnswer => ~exchanges[e].capReported

IsTextChunk(chunk) == chunk.type = "text"

RECURSIVE Concat(_)
Concat(chunks) == IF chunks = <<>> THEN <<>> ELSE Head(chunks).text \o Concat(Tail(chunks))

\* the text of a response: its string, or its text segments in order
TextOf(content) ==
  CASE content.type = "string" -> content.text
    [] content.type = "array" -> Concat(SelectSeq(content.chunks, IsTextChunk))
    [] OTHER -> <<>>

\* C19: the step in which an exchange receives a response without tool
\* calls appends exactly one assistant turn to the history and ends the
\* exchange; the content of the turn is the text of the response, or the
\* sentinel "No response" when there is no text; no assistant turn of the
\* history has an empty content.
C19_FinalAnswerAppended ==
  [][/\ \A e \in 1..Len(exchanges) :
          (~exchanges[e].finalAnswer /\ exchanges'[e].finalAnswer)
            => LET content == exchanges'[e].response
                   text == IF TextOf(content) = <<>> THEN <<"No response">> ELSE TextOf(content)
               IN /\ conversationHistory' =
                       Append(conversationHistory, Turn("assistant", text, e))
                  /\ exchanges[e].pc = "awaitCompletion"
                  /\ exchanges'[e].pc = "done"
     /\ \A k \in 1..Len(conversationHistory') :
          conversationHistory'[k].role = "assistant" => conversationHistory'[k].content # <<>>]_vars

\* the first exchange was answered by the chunks text a, image, text b and
\* the second by an image chunk alone: the history holds "ab" and the sentinel
C19_Witness ==
  /\ Len(exchanges) = 2 /\ Len(conversationHistory) = 4
  /\ exchanges[1].response.chunks = <<TextChunk(<<"a">>), ImageChunk, TextChunk(<<"b">>)>>
  /\ \E k \in 1..4 : /\ conversationHistory[k].by = 1
                       /\ conversationHistory[k].content = <<"a", "b">>
  /\ exchanges[2].response.chunks = <<ImageChunk>>
  /\ \E k \in 1..4 : /\ conversationHistory[k].by = 2
                       /\ conversationHistory[k].role = "assistant"
                       /\ conversationHistory[k].content = <<"No response">>

\* C20: the step in which an exchange receives a response without a choice
\* ends the exchange and nothing else: the history is left as it is (no turn
\* removed, no assistant turn appended), no error is reported, the prompt is
\* issued again and the reader stays open for the next line.
C20_EmptyResponseEndsExchangeOnly ==
  [][\A e \in 1..Len(exchanges) :
       (~exchanges[e].noResponse /\ exchanges'[e].noResponse)
         => /\ conversationHistory' = conversationHistory
            /\ exchanges[e].pc = "awaitCompletion"
            /\ exchanges'[e].pc = "done"
            /\ exchanges'[e].error = "none" /\ ~exchanges'[e].finalAnswer
            /\ exchanges'[e].prompts = exchanges[e].prompts + 1
            /\ ~closed' /\ planMode' = planMode]_vars

\* the first exchange ended on an empty response; the next line was handled
\* and its exchange sends both user turns, the unanswered one included
C20_Witness ==
  /\ Len(exchanges) = 2
  /\ exchanges[1].noResponse /\ exchanges[1].pc = "done" /\ exchanges[1].prompts = 1
  /\ exchanges[2].pc = "awaitCompletion"
  /\ Len(exchanges[2].messages) = 3
  /\ exchanges[2].messages[2].role = "user" /\ exchanges[2].messages[2].by = 1
  /\ exchanges[2].messages[3].role = "user" /\ exchanges[2].messages[3].by = 2
  /\ Len(conversationHistory) = 2

(* ---------------------- claims about the executor ---------------------- *)
\* the call of the executor that the last step made
Called(toolName) == lastTool.toolName = toolName
IsText(s) == \A i \in 1..Len(s) : s[i] \in STRING

\* C21: executeTool is total for all four capabilities: whatever the argument
\* object and whatever the file system or the spawned process does, the call
\* returns a text and never raises, so that the await of the loop never rejects
\* and a fault of a capability never reaches the catch block that rolls the
\* exchange back.
C21_ExecutorIsTotal ==
  ~Called("none") =>
    /\ lastTool.toolName \in AllCapabilities
    /\ ~lastTool.raised
    /\ IsText(lastTool.result)

\* a write that the file system refused came back as the text of the error
C21_Witness ==
  /\ Called("edit_file")
  /\ lastTool.args.old_str = <<"a">>
  /\ lastTool.env.writeFault = "EACCES"
  /\ ~lastTool.raised
  /\ lastTool.result = <<"Error editing file: ", "EACCES">>

\* the last call created the file of its path with the text X and said so
Created(call) ==
  /\ call.toolName = "edit_file"
  /\ call.args.old_str = <<>>
  /\ call.result = <<"File created successfully: ", call.args.file_path>>

\* C22: round trip: when edit_file(path, "", X) has written the file and the
\* next call is read_file(path), which the file system lets through, that call
\* returns exactly X, whether or not the file existed before; and the read
\* leaves the file as it is.
C22_CreateThenReadRoundTrip ==
  [][(/\ Created(lastTool)
      /\ lastTool'.toolName = "read_file"
      /\ lastTool'.args.file_path = lastTool.args.file_path
      /\ lastTool'.env.readFault = "none")
     => (/\ lastTool'.result = lastTool.args.new_str
         /\ files' = files)]_vars

\* a text of one two-byte character was written and read back
C22_Witness ==
  /\ Called("read_file")
  /\ lastTool.env.readFault = "none"
  /\ lastTool.result = <<"U+00E9">>
  /\ files[FilePath].bytes = <<195, 169>>

\* the text of the file, as read_file would return it
TextOfFile(fs) == decode(fs[FilePath].bytes)

\* the step is a call of edit_file with a non-empty old that the file system let through
Edits(call, fs) ==
  /\ call.toolName = "edit_file"
  /\ call.args.old_str # <<>>
  /\ call.args.file_path # Undefined
  /\ call.env.readFault = "none" /\ call.env.writeFault = "none"
  /\ fs[FilePath].exists

\* old occurs in text at position i and nowhere before
FirstOccurrence(text, old, i) ==
  /\ i \in 1..(Len(text) - Len(old) + 1)
  /\ SubSeq(text, i, i + Len(old) - 1) = old
  /\ \A j \in 1..(i - 1) : SubSeq(text, j, j + Len(old) - 1) # old

\* C23: for every content of the file, every non-empty old that occurs in it
\* and every new, whatever characters new contains, edit_file writes back the
\* content with the first occurrence of old replaced by new verbatim:
\* the text before the occurrence, then new, then the text after it.
C23_FirstOccurrenceReplacedVerbatim ==
  [][\A i \in 1..Len(TextOfFile(files)) :
       (/\ Edits(lastTool', files)
        /\ FirstOccurrence(TextOfFile(files), lastTool'.args.old_str, i))
       => TextOfFile(files') =
            SubSeq(TextOfFile(files), 1, i - 1)
              \o lastTool'.args.new_str
              \o SubSeq(TextOfFile(files), i + Len(lastTool'.args.old_str),
                        Len(TextOfFile(files)))]_vars

\* C24: a call of edit_file with a non-empty old that does not occur in the
\* file it reads leaves the file as it is, without any write (so even a file
\* system that refuses writes is not asked), and returns the not-found text.
C24_MissingOldLeavesFile ==
  [][(/\ lastTool'.toolName = "edit_file"
      /\ lastTool'.args.old_str # <<>>
      /\ lastTool'.args.file_path # Undefined
      /\ lastTool'.env.readFault = "none"
      /\ files[FilePath].exists
      /\ \A i \in 1..Len(TextOfFile(files)) :
           ~FirstOccurrence(TextOfFile(files), lastTool'.args.old_str, i))
     => (/\ files' = files
         /\ lastTool'.result = NotFoundText)]_vars

\* old was searched for in a file that does not hold it, on a file system
\* that would have refused the write
C24_Witness ==
  /\ Called("edit_file")
  /\ lastTool.args.old_str = <<"b", "a">>
  /\ lastTool.env.writeFault = "EACCES"
  /\ files[FilePath].exists
  /\ TextOfFile(files) = <<"$", "$">>
  /\ lastTool.result = NotFoundText

\* the last call ran a command whose process ended with a non-zero exit code
ExitedNonZero(call) ==
  /\ call.toolName = "run_command"
  /\ call.args.command # Undefined
  /\ call.env.process.rejected
  /\ call.env.process.code \in {"1", "3"}

\* C25: whenever the command of run_command exits with a non-zero code, the
\* returned text is the combined standard output and standard error prefixed
\* with the exit code, also when the command produced no output at all.
C25_NonZeroExitIsPrefixed ==
  ExitedNonZero(lastTool) =>
    lastTool.result =
      <<"Command failed with exit code ", lastTool.env.process.code, ":\n">>
        \o trim(lastTool.env.process.stdout \o lastTool.env.process.stderr)

\* C26: run_command never returns the empty text: a command that succeeds
\* without output (or with white space only) yields the no-output text, and
\* every failure yields a text that is not empty.
C26_RunCommandTextNotEmpty ==
  Called("run_command") => lastTool.result # <<>>

\* a command succeeded and wrote white space only
C26_Witness ==
  /\ Called("run_command")
  /\ ~lastTool.env.process.rejected
  /\ lastTool.env.process.stdout = <<" ", "\n">>
  /\ lastTool.result = NoOutputText

(* ---------------- claims about the history and the lines --------------- *)
\* C27: the history changes only by the append of one turn at its end, by the
\* removal of exactly its last turn, or by being emptied; no step modifies a
\* turn, reorders turns or removes a turn from the middle.
C27_HistoryChangesAtItsEnd ==
  [][\/ conversationHistory' = conversationHistory
     \/ /\ Len(conversationHistory') = Len(conversationHistory) + 1
        /\ SubSeq(conversationHistory', 1, Len(conversationHistory)) = conversationHistory
     \/ /\ conversationHistory # <<>>
        /\ conversationHistory' = SubSeq(conversationHistory, 1, Len(conversationHistory) - 1)
     \/ conversationHistory' = <<>>]_vars

\* an exchange was rolled back while the history held two turns
C27_Witness ==
  /\ Len(exchanges) = 2
  /\ exchanges[1].error = "completion"
  /\ Len(conversationHistory) = 1
  /\ lineCount = 2

\* l without the white space around it begins with /plan
PlanPrefixed(l) ==
  \E a \in 0..(Len(l) - Len(S_plan)) :
    /\ SubSeq(l, 1, a) = Spaces(a)
    /\ SubSeq(l, a + 1, a + Len(S_plan)) = S_plan

\* what follows /plan in l, without the white space around it
PlanText(l) == trim(SubSeq(trim(l), Len(S_plan) + 1, Len(trim(l))))

\* the rule of the interpreter that applies to the line l: the first that matches
Rule(l) ==
  IF Padded(l, S_exit) \/ Padded(l, S_quit) THEN "exit"
  ELSE IF Padded(l, S_clear) THEN "clear"
  ELSE IF Padded(l, S_help) THEN "help"
  ELSE IF l = Spaces(Len(l)) THEN "empty"
  ELSE IF PlanPrefixed(l) THEN "plan"
  ELSE IF ApprovalLine(l) THEN "approval"
  ELSE "chat"

\* the step starts one exchange: it appends one user turn with this content
\* and makes the first completion call, in this mode
Starts(content, isPlanMode) ==
  LET n == Len(exchanges')
  IN /\ n = Len(exchanges) + 1
     /\ conversationHistory' = Append(conversationHistory, Turn("user", content, n))
     /\ exchanges'[n].pc = "awaitCompletion" /\ exchanges'[n].ncalls = 1
     /\ exchanges'[n].isPlanMode = isPlanMode
     /\ SubSeq(exchanges', 1, n - 1) = exchanges

\* the step starts no exchange and leaves the history
NoExchange == exchanges' = exchanges /\ conversationHistory' = conversationHistory

\* C28: every input line is handled by exactly one rule, the first that
\* matches in the order exit/quit, clear, help, empty, /plan prefix, approval,
\* chat.  exit, quit, clear, help and the empty line never reach the model, in
\* either mode; a line that starts with /plan is never taken as an approval;
\* in Plan mode an approval phrase is never appended to the history as typed.
C28_FirstMatchingRule ==
  [][LineHandled =>
       LET l == lastInput'
       IN CASE Rule(l) = "exit" ->
                 closed' /\ exchanges' = exchanges /\ planMode' = planMode
                         /\ conversationHistory' = conversationHistory
            [] Rule(l) = "clear" ->
                 ~closed' /\ exchanges' = exchanges /\ planMode' = FALSE
                          /\ conversationHistory' = <<>>
            [] Rule(l) \in {"help", "empty"} ->
                 ~closed' /\ NoExchange /\ planMode' = planMode
            [] Rule(l) = "plan" ->
                 /\ ~closed' /\ planMode' = TRUE
                 /\ IF PlanText(l) = <<>> THEN NoExchange ELSE Starts(PlanText(l), TRUE)
            [] Rule(l) = "approval" ->
                 /\ ~closed'
                 /\ IF planMode
                    THEN /\ planMode' = FALSE
                         /\ Starts(<<"Please implement the plan we discussed.">>, FALSE)
                         /\ Last(conversationHistory').content # trim(l)
                    ELSE NoExchange /\ planMode' = planMode
            [] OTHER ->
                 ~closed' /\ planMode' = planMode /\ Starts(trim(l), planMode)]_vars

\* /plan, then a line that begins with /approve and goes on: the approval rule
\* applied, and the history holds the canonical instruction
C28_Witness ==
  /\ lineCount = 2
  /\ lastInput = S_slashApprove \o <<" ">> \o S_fix
  /\ ~planMode
  /\ Len(exchanges) = 1 /\ ~exchanges[1].isPlanMode
  /\ Len(conversationHistory) = 1
  /\ conversationHistory[1].content = <<"Please implement the plan we discussed.">>

\* C29: after exit or quit nothing happens any more: the line itself changes
\* neither the history nor the mode and starts no exchange, and from then on
\* there is no completion call, no step of a pending exchange, no change of the
\* history or the mode, and no further input line is processed.
C29_NothingAfterExit ==
  [][/\ (LineHandled /\ (Padded(lastInput', S_exit) \/ Padded(lastInput', S_quit)))
          => /\ closed'
             /\ conversationHistory' = conversationHistory
             /\ planMode' = planMode
             /\ exchanges' = exchanges
     /\ closed
          => /\ conversationHistory' = conversationHistory
             /\ planMode' = planMode
             /\ exchanges' = exchanges
             /\ lineCount' = lineCount
             /\ closed']_vars

\* exit was typed while an exchange was waiting for the model
C29_Witness ==
  /\ closed
  /\ lastInput = S_exit
  /\ Len(exchanges) = 1
  /\ exchanges[1].pc = "awaitCompletion"
  /\ Len(conversationHistory) = 1

\* the step printed the plan-mode reminder, on the way to the exchange it starts
Reminded ==
  /\ Len(exchanges') = Len(exchanges) + 1
  /\ exchanges'[Len(exchanges')].reminded

\* C30: the plan-mode reminder is printed exactly when the mode is Plan and
\* the line is a chat message, neither a /plan line nor an approval (nor one of
\* the commands handled before).  It comes before the exchange of that message
\* starts, and changes neither the mode nor the history: the mode stays Plan
\* and the history receives the user turn of the message, as typed, and
\* nothing else.
C30_ReminderInPlanModeChat ==
  [][LineHandled =>
       /\ Reminded <=> (planMode /\ Rule(lastInput') = "chat")
       /\ Reminded => /\ planMode' = planMode
                      /\ Starts(trim(lastInput'), TRUE)
                      /\ exchanges'[Len(exchanges')].iteration = 1]_vars

\* /plan, then a message that resembles an approval: reminded, still in Plan mode
C30_Witness ==
  /\ lineCount = 2
  /\ lastInput = S_yes \o <<" ">> \o S_fix
  /\ planMode
  /\ Len(exchanges) = 1 /\ exchanges[1].reminded /\ exchanges[1].isPlanMode
  /\ Len(conversationHistory) = 1

(* ------------------- claims about the mode and the end ----------------- *)
\* exchange e is executing a capability that changes the workspace
ExecutingMutating(e) ==
  /\ exchanges[e].pc = "awaitTool"
  /\ exchanges[e].toolCalls[exchanges[e].idx].name \in Mutating

\* C31 (as claimed): whenever edit_file or run_command is being executed the
\* mode of the session is Implementation, also when a /plan line is handled
\* while an exchange that started in Implementation mode is still pending.
C31_MutatingOnlyInImplementation ==
  \A e \in 1..Len(exchanges) : ExecutingMutating(e) => ~planMode

\* a turn of a user, or an answer of the assistant that requests no tool call
PlainTurn(m) ==
  /\ m.role \in {"user", "assistant"}
  /\ m.toolCalls = <<>>
  /\ m.toolCallId = ""

\* C32: the history of the session holds only user turns and assistant turns
\* without tool calls.  The assistant turns that request tool calls and the
\* tool turns exist only in the message sequence of the exchange that
\* produced them: in the messages an exchange sends to the completion
\* boundary, every turn that another exchange produced is a plain turn.
C32_HistoryHoldsPlainTurnsOnly ==
  /\ \A k \in 1..Len(conversationHistory) : PlainTurn(conversationHistory[k])
  /\ \A e \in 1..Len(exchanges) :
       \A k \in 2..Len(exchanges[e].messages) :
         exchanges[e].messages[k].by # e => PlainTurn(exchanges[e].messages[k])

\* the second exchange is at the completion boundary, after the first one ran
\* a tool round and put its answer in the history
C32_Witness ==
  /\ Len(exchanges) = 2
  /\ exchanges[1].finalAnswer /\ exchanges[1].pc = "done"
  /\ rounds = 1
  /\ exchanges[2].pc = "awaitCompletion"
  /\ Len(exchanges[2].messages) = 4
  /\ exchanges[2].messages[3].by = 1

\* C33 (as claimed): every assistant turn of the history comes right after the
\* user turn it answers, the user turn of the same exchange, also when clear or
\* another input line is handled while the exchange is pending.
C33_AnswerFollowsItsUserTurn ==
  \A k \in 1..Len(conversationHistory) :
    conversationHistory[k].role = "assistant"
      => /\ k > 1
         /\ conversationHistory[k - 1].role = "user"
         /\ conversationHistory[k - 1].by = conversationHistory[k].by

\* x is an exchange that a /plan line with a text started: it runs in Plan
\* mode and was not preceded by the reminder
ByPlanLine(x) == x.isPlanMode /\ ~x.reminded

\* C34: when an exchange started by /plan with a text, or by an approval in
\* Plan mode, ends with an error that is fatal to the exchange, the step
\* removes the last turn of the history (the user turn of the exchange, when
\* nothing was appended after it) and leaves the mode: the mode change of the
\* line is not undone.  If no line was handled since, the mode is still Plan
\* after the failed /plan line and still Implementation after the failed
\* approval.
C34_RollbackKeepsModeChange ==
  [][\A e \in 1..Len(exchanges) :
       (/\ Ends(e) /\ exchanges'[e].error # "none"
        /\ (ByPlanLine(exchanges[e]) \/ Approved(exchanges[e], e)))
       => /\ planMode' = planMode
          /\ conversationHistory' =
               SubSeq(conversationHistory, 1, Len(conversationHistory) - 1)
          /\ (conversationHistory # <<>> /\ Last(conversationHistory).by = e)
               => \A k \in 1..Len(conversationHistory') : conversationHistory'[k].by # e
          /\ (e = Len(exchanges) /\ ByPlanLine(exchanges[e])
                /\ PlanPrefixed(lastInput) /\ PlanText(lastInput) # <<>>)
               => planMode'
          /\ (e = Len(exchanges) /\ Approved(exchanges[e], e) /\ ApprovalLine(lastInput))
               => ~planMode']_vars

\* /plan, then YES, and the completion call of the approval threw: the history
\* is empty again and the mode is Implementation
C34_Witness ==
  /\ lineCount = 2
  /\ lastInput = <<"Y", "E", "S">>
  /\ Len(exchanges) = 1
  /\ exchanges[1].error = "completion" /\ ~exchanges[1].isPlanMode
  /\ conversationHistory = <<>>
  /\ ~planMode

\* C35: the mode of the session starts as Implementation and changes only
\* when a line is handled, through three commands: a line that starts with
\* /plan sets it to Plan, an approval handled in Plan mode sets it to
\* Implementation, and clear sets it to Implementation.  The steps of an
\* exchange (completion responses, tool executions, refusals, the cap, the
\* rollback) never change it.
C35_ModeChangesByCommandOnly ==
  [][/\ lineCount = 0 => ~planMode
     /\ planMode' # planMode
          => /\ LineHandled
             /\ \/ Rule(lastInput') = "plan" /\ planMode'
                \/ Rule(lastInput') = "approval" /\ planMode /\ ~planMode'
                \/ Rule(lastInput') = "clear" /\ ~planMode'
     /\ ~LineHandled => planMode' = planMode]_vars

\* a chat line in Implementation mode, then /plan: the mode is Plan, and the
\* tool round and the final answer of the exchange have left it so
C35_Witness ==
  /\ lineCount = 2
  /\ lastInput = S_plan
  /\ planMode
  /\ Len(exchanges) = 1
  /\ ~exchanges[1].isPlanMode /\ exchanges[1].finalAnswer
  /\ rounds = 1

\* the line l, handled in this mode, is one for which the model is asked
CallsModel(l, mode) ==
  \/ Rule(l) = "chat"
  \/ Rule(l) = "plan" /\ PlanText(l) # <<>>
  \/ Rule(l) = "approval" /\ mode

\* C36: the completion boundary is called only for a plain chat line, a /plan
\* line with a message, or an approval in Plan mode, and then once before the
\* call is awaited.  exit, quit, clear, help, the empty line, a bare /plan and
\* an approval outside Plan mode make no completion call and execute no
\* capability: they leave every exchange, the files and, except for clear, the
\* history as they are.
C36_CommandsMakeNoCall ==
  [][LineHandled =>
       IF CallsModel(lastInput', planMode)
       THEN /\ Len(exchanges') = Len(exchanges) + 1
            /\ SubSeq(exchanges', 1, Len(exchanges)) = exchanges
            /\ exchanges'[Len(exchanges')].ncalls = 1
            /\ exchanges'[Len(exchanges')].pc = "awaitCompletion"
            /\ exchanges'[Len(exchanges')].fileWrites = 0
            /\ exchanges'[Len(exchanges')].spawns = 0
       ELSE /\ exchanges' = exchanges
            /\ files' = files /\ lastTool' = lastTool
            /\ Rule(lastInput') # "clear" => conversationHistory' = conversationHistory
            /\ Rule(lastInput') = "clear" => conversationHistory' = <<>>]_vars

\* a chat line, then an approval outside Plan mode: the exchange of the chat
\* line is still the only one and the history holds its user turn only
C36_Witness ==
  /\ lineCount = 2
  /\ lastInput = <<"Y", "e", "s", " ">> \o S_implement
  /\ ~planMode
  /\ Len(exchanges) = 1 /\ exchanges[1].ncalls = 1
  /\ Len(conversationHistory) = 1
  /\ conversationHistory[1].content = <<"h", "i">>

\* how many of the four ways to end the exchange x reports
Outcomes(x) ==
  Cardinality({o \in {"final answer", "empty response", "cap exhaustion", "rollback"} :
                 \/ o = "final answer" /\ x.finalAnswer
                 \/ o = "empty response" /\ x.noResponse
                 \/ o = "cap exhaustion" /\ x.capReported
                 \/ o = "rollback" /\ x.error # "none"})

\* C37 (as claimed): an exchange ends after at least 1 and at most 10
\* completion calls, in exactly one of: final answer, empty response, cap
\* exhaustion, rollback; and the input prompt is then issued exactly once.
C37_EndsInExactlyOneOutcome ==
  [][\A e \in 1..Len(exchanges) :
       Ends(e) => /\ exchanges[e].ncalls \in 1..10
                  /\ Outcomes(exchanges'[e]) = 1
                  /\ exchanges'[e].prompts = 1]_vars

====
